---- MODULE Spec2Model ----
(***************************************************************************)
(* retrydb: a wrapper around a Primary and an optional Secondary database  *)
(* that retries read queries against the Secondary and keeps the Primary   *)
(* out of rotation for a cool-down after a failed or slow query.           *)
(*                                                                         *)
(* Time is counted in units of 10ms, so that 30ms, 50ms, 30s and 120s are  *)
(* all exact.  Callers are processes; each step of RetryDB.Query between   *)
(* two points where another goroutine can interleave is one action.        *)
(***************************************************************************)
EXTENDS Integers, Sequences, FiniteSets, TLC

\* ---------------------------------------------------------------- bounds
NumProcs == 2
MaxCalls == 3
MaxBigTicks == 2
MaxSmallTicks == 1
MaxStreakCalls == 5
MaxStreakTicks == 6
MaxPoolCalls == 3
MaxPoolSize == 2
MaxRowCalls == 2
MaxRows == 2

Procs == 1..NumProcs

\* ------------------------------------------------------------- time units
\* time.Second in units of 10ms
Second == 100
\* a clock step of 50ms (longer than a 30ms threshold) and one of 30s
SmallTick == 5
BigTick == 30 * Second
\* the thresholds SetMaxQueryTime is called with: 30ms and the default 30s
MaxQueryTimes == {3, 30 * Second}
DefaultMaxQueryTime == 30 * Second

None == "none"

\* ------------------------------------------------------------ the policy
\* defaultRetryStrategy without its ceiling of 120s
defaultRetryStrategyLinear(c) == c * 30 * Second

\* func defaultRetryStrategy(retryCount int32) time.Duration
defaultRetryStrategy(c) ==
    IF c < 4 THEN c * 30 * Second ELSE 120 * Second

\* a caller-supplied strategy: a flat 50ms
flatRetryStrategy(c) == SmallTick

Strategies == {"default", "flat"}

\* db.retryStrategy(n): the strategy held in the field, applied
RetryStrategy(s, c) ==
    IF s = "default" THEN defaultRetryStrategy(c) ELSE flatRetryStrategy(c)

\* ------------------------------------------------------- backend results
\* What a backend's Query returns: (rows, err).  rows is "nil" or a cursor,
\* written as the value of its Err(): "ok" (Err() == nil), "ErrNoRows" or
\* "ErrBad" (any other error).  database/sql returns a nil cursor exactly
\* when err is not nil.
Outcomes ==
    { [err |-> "nil", rows |-> "ok"],
      [err |-> "nil", rows |-> "ErrNoRows"],
      [err |-> "nil", rows |-> "ErrBad"],
      [err |-> "ErrNoRows", rows |-> "nil"],
      [err |-> "ErrBad", rows |-> "nil"] }

\* what the Secondary answers: a cursor or an error
SecondaryOutcomes ==
    { [err |-> "nil", rows |-> "ok"],
      [err |-> "ErrBad", rows |-> "nil"] }

\* the (rows, err) pair as the caller sees it: which backend produced it,
\* and for which query and arguments
Result(src, q, o) == [src |-> src, q |-> q, err |-> o.err, rows |-> o.rows]

NoResult == [src |-> None, q |-> None, err |-> "nil", rows |-> "nil"]

\* the query and args a caller passes: each caller has its own
QueryOf(p) == <<"select", p>>

\* getFatalError without the look into the cursor's Err()
getFatalErrorNoPeek(a, r) ==
    IF a # "nil" /\ a # "ErrNoRows" THEN a ELSE "nil"

\* getFatalError taking sql.ErrNoRows for an error like any other
getFatalErrorStrict(a, r) ==
    IF a # "nil" THEN a
    ELSE IF r = "nil" THEN "nil"
    ELSE IF r # "ok" THEN r
    ELSE "nil"

\* func getFatalError(a error, r *sql.Rows) error
getFatalError(a, r) ==
    IF a # "nil" /\ a # "ErrNoRows" THEN a
    ELSE IF r = "nil" THEN "nil"
    ELSE IF r # "ok" /\ r # "ErrNoRows" THEN r
    ELSE "nil"

\* the trip check with !start.After(db.retryUntil)
NotAfter(t, u) == t <= u

\* start.Before(db.retryUntil)
Before(t, u) == t < u

\* ----------------------------------------------------------------- state
VARIABLES
    Secondary,      \* "db" or "nil": RetryDB.Secondary
    retryCount,     \* RetryDB.retryCount
    retryUntil,     \* RetryDB.retryUntil
    maxQueryTime,   \* RetryDB.maxQueryTime
    retryStrategy,  \* RetryDB.retryStrategy
    readers,        \* the callers holding the RWMutex for reading
    writer,         \* the callers holding the RWMutex for writing (at most one)
    now,            \* the wall clock
    horizon,        \* the last instant of the run
    health,         \* how the Primary answers: "any", "down" or "up"
    budget,         \* the calls still to be made (-1: no limit)
    pc,             \* where each caller is
    op,             \* the method the caller is in, or was in last
    start,          \* Query's local start
    dur,            \* Query's local queryDuration
    uerr,           \* the err the call passes, or passed, to updateRetry
    res,            \* Query's locals rows, err; at "done", what was returned
    sent,           \* the backends the call has queried, in order
    nfail,          \* the failures the call has recorded
    isDB,           \* which of the backends are a *sql.DB
    conns,          \* each backend's MaxOpenConns and MaxIdleConns
    ping,           \* what the backends' Ping returned to the caller's Ping
    row,            \* the *Row that QueryRow returned to the caller
    cursor,         \* what has been done to the *sql.Rows in that Row
    scan            \* Row.Scan's destinations and what it returned

shared == <<Secondary, retryCount, retryUntil, maxQueryTime, retryStrategy>>
mutex == <<readers, writer>>
locals == <<pc, op, start, dur, uerr, res, sent, nfail>>
env == <<horizon, health>>
wrapped == <<isDB, conns, ping, row, cursor, scan>>
vars == <<shared, mutex, now, env, wrapped, budget, locals>>

\* OpenWithDB / Open: the fields after construction
InitFields ==
    /\ retryCount = 0
    /\ retryUntil = 0
    /\ maxQueryTime = DefaultMaxQueryTime
    /\ retryStrategy = "default"
    /\ readers = {}
    /\ writer = {}

\* sql.DB's limits before any setter is called (0: the limit it starts
\* with), a cursor nobody has touched, a Scan that was not called and the
\* *Row of a caller that has none
NoLimits == [open |-> 0, idle |-> 0]
NewCursor ==
    [nexts |-> 0, scans |-> 0, closes |-> 0, closed |-> FALSE,
     found |-> None, err |-> None, decode |-> None, close |-> None]
NoScan == [dest |-> <<>>, ret |-> None]
NilRow == [rows |-> None, err |-> None]

\* sql.Open / OpenWithDB: both backends are a *sql.DB with its own limits
InitBackends ==
    /\ isDB = [b \in {"Primary", "Secondary"} |-> TRUE]
    /\ conns = [b \in {"Primary", "Secondary"} |-> NoLimits]

InitCallers ==
    /\ ping = [p \in Procs |-> <<>>]
    /\ row = [p \in Procs |-> NilRow]
    /\ cursor = [p \in Procs |-> NewCursor]
    /\ scan = [p \in Procs |-> NoScan]
    /\ now = 0
    /\ pc = [p \in Procs |-> "idle"]
    /\ op = [p \in Procs |-> None]
    /\ start = [p \in Procs |-> 0]
    /\ dur = [p \in Procs |-> 0]
    /\ uerr = [p \in Procs |-> "nil"]
    /\ res = [p \in Procs |-> NoResult]
    /\ sent = [p \in Procs |-> <<>>]
    /\ nfail = [p \in Procs |-> 0]

\* the clock's reach in a run of the whole program
Horizon == MaxBigTicks * BigTick + MaxSmallTicks * SmallTick

Init ==
    /\ Secondary \in {"db", "nil"}
    /\ InitFields
    /\ InitCallers
    /\ InitBackends
    /\ horizon = Horizon
    /\ health = "any"
    /\ budget = MaxCalls

\* an error other than sql.ErrNoRows, from Query or from the cursor's Err()
Failed(o) ==
    \/ o.err \notin {"nil", "ErrNoRows"}
    \/ o.rows \notin {"nil", "ok", "ErrNoRows"}

\* db.Primary.Query's answers: any at all; while the Primary is up, none that
\* Failed; while it is down, only ones that Failed
PrimaryOutcomes(h) ==
    IF h = "down" THEN {o \in Outcomes : Failed(o)}
    ELSE IF h = "up" THEN {o \in Outcomes : ~Failed(o)}
    ELSE Outcomes

\* the callers whose Primary query is being timed: start is taken and
\* queryDuration is not yet
Timed == {p \in Procs : pc[p] \in {"check", "primary"}}

\* ------------------------------------------------------------ the clock
\* time.Now(): the clock advances by 50ms or by 30s up to the horizon, with
\* a bounded number of 50ms steps between two 30s steps.  While the Primary
\* is up it answers within the threshold.
Tick(d) ==
    /\ now + d <= horizon
    /\ d = SmallTick => (now % BigTick) \div SmallTick < MaxSmallTicks
    /\ health = "up" =>
         \A p \in Timed : now + d - start[p] <= maxQueryTime
    /\ now' = now + d
    /\ UNCHANGED <<shared, mutex, env, wrapped, budget, locals>>

\* ------------------------------------------------------- sync.RWMutex
\* RLock returns while no writer holds the lock, Lock while nobody does
CanRLock == writer = {}
CanLock == writer = {} /\ readers = {}

\* --------------------------------------------------------- configuration
\* the goroutine that configures the RetryDB, as a holder of the lock
Admin == NumProcs + 1

\* SetMaxQueryTime, line 142, and SetRetryStrategy, line 149: db.Lock()
SetLock ==
    /\ CanLock
    /\ writer' = {Admin}
    /\ UNCHANGED <<shared, readers, now, env, wrapped, budget, locals>>

\* SetMaxQueryTime that returns without db.Unlock()
SetMaxQueryTimeNoUnlock(t) ==
    /\ writer = {Admin}
    /\ maxQueryTime' = t
    /\ UNCHANGED <<Secondary, retryCount, retryUntil, retryStrategy,
                   mutex, now, env, wrapped, budget, locals>>

\* func (db *RetryDB) SetMaxQueryTime(t time.Duration), lines 143-144
SetMaxQueryTime(t) ==
    /\ writer = {Admin}
    /\ maxQueryTime' = t
    /\ writer' = {}
    /\ UNCHANGED <<Secondary, retryCount, retryUntil, retryStrategy,
                   readers, now, env, wrapped, budget, locals>>

\* func (db *RetryDB) SetRetryStrategy(s RetryStrategy), lines 150-151
SetRetryStrategy(s) ==
    /\ writer = {Admin}
    /\ retryStrategy' = s
    /\ writer' = {}
    /\ UNCHANGED <<Secondary, retryCount, retryUntil, maxQueryTime,
                   readers, now, env, wrapped, budget, locals>>

\* ----------------------------------------------------------- the callers
\* a caller enters method m: fresh locals
Enter(p, m) ==
    /\ pc[p] \in {"idle", "done"}
    /\ budget # 0
    /\ budget' = IF budget > 0 THEN budget - 1 ELSE budget
    /\ op' = [op EXCEPT ![p] = m]
    /\ uerr' = [uerr EXCEPT ![p] = "nil"]
    /\ nfail' = [nfail EXCEPT ![p] = 0]

\* a caller returns rows, err: start and queryDuration are gone
Return(p) ==
    /\ pc' = [pc EXCEPT ![p] = "done"]
    /\ start' = [start EXCEPT ![p] = 0]
    /\ dur' = [dur EXCEPT ![p] = 0]

\* Exec and Begin return a value and an error
WriteErrors == {"nil", "ErrBad"}

\* Exec failing over to the Secondary while the Primary is out of rotation
ExecFailover(p) ==
    \E e \in WriteErrors :
        LET to == IF Secondary = "db" /\ Before(now, retryUntil)
                  THEN "Secondary" ELSE "Primary"
        IN  /\ Enter(p, "Exec")
            /\ sent' = [sent EXCEPT ![p] = <<to>>]
            /\ res' = [res EXCEPT ![p] =
                         Result(to, QueryOf(p), [err |-> e, rows |-> "nil"])]
            /\ Return(p)
            /\ UNCHANGED <<shared, mutex, now, env, wrapped>>

\* func (db *RetryDB) Exec(query, args...): db.Primary.Exec(query, args...)
Exec(p) ==
    \E e \in WriteErrors :
        /\ Enter(p, "Exec")
        /\ sent' = [sent EXCEPT ![p] = <<"Primary">>]
        /\ res' = [res EXCEPT ![p] =
                     Result("Primary", QueryOf(p), [err |-> e, rows |-> "nil"])]
        /\ Return(p)
        /\ UNCHANGED <<shared, mutex, now, env, wrapped>>

\* func (db *RetryDB) Begin(): db.Primary.Begin()
Begin(p) ==
    \E e \in WriteErrors :
        /\ Enter(p, "Begin")
        /\ sent' = [sent EXCEPT ![p] = <<"Primary">>]
        /\ res' = [res EXCEPT ![p] =
                     Result("Primary", None, [err |-> e, rows |-> "nil"])]
        /\ Return(p)
        /\ UNCHANGED <<shared, mutex, now, env, wrapped>>

\* Query without the early return of lines 218-220
QueryCallNoShortcut(p) ==
    /\ Enter(p, "Query")
    /\ sent' = [sent EXCEPT ![p] = <<>>]
    /\ res' = [res EXCEPT ![p] = NoResult]
    /\ pc' = [pc EXCEPT ![p] = "rlock"]
    /\ UNCHANGED <<start, dur>>
    /\ UNCHANGED <<shared, mutex, now, env, wrapped>>

\* Query, lines 218-220: without a Secondary the Primary's answer is returned;
\* with one, the caller goes on to db.RLock()
QueryCall(p) ==
    /\ Enter(p, "Query")
    /\ IF Secondary = "nil"
       THEN \E o \in PrimaryOutcomes(health) :
              /\ sent' = [sent EXCEPT ![p] = <<"Primary">>]
              /\ res' = [res EXCEPT ![p] = Result("Primary", QueryOf(p), o)]
              /\ Return(p)
       ELSE /\ sent' = [sent EXCEPT ![p] = <<>>]
            /\ res' = [res EXCEPT ![p] = NoResult]
            /\ pc' = [pc EXCEPT ![p] = "rlock"]
            /\ UNCHANGED <<start, dur>>
    /\ UNCHANGED <<shared, mutex, now, env, wrapped>>

\* Query, lines 223-224: db.RLock(); start := time.Now()
QueryRLock(p) ==
    /\ pc[p] = "rlock"
    /\ CanRLock
    /\ readers' = readers \cup {p}
    /\ start' = [start EXCEPT ![p] = now]
    /\ pc' = [pc EXCEPT ![p] = "check"]
    /\ UNCHANGED <<shared, writer, now, env, wrapped, budget, op, dur, uerr, res, sent, nfail>>

\* Query, lines 225-232: the trip check, then db.RUnlock() on either branch
QueryTripCheck(p) ==
    /\ pc[p] = "check"
    /\ readers' = readers \ {p}
    /\ pc' = [pc EXCEPT ![p] =
                IF Before(start[p], retryUntil) THEN "divert" ELSE "primary"]
    /\ UNCHANGED <<shared, writer, now, env, wrapped, budget, op, start, dur, uerr, res, sent,
                   nfail>>

\* what db.Primary.Query answers to caller p now: while the Primary is down
\* it also answers without error, but only after the threshold has passed
PrimaryAnswers(p) ==
    PrimaryOutcomes(health) \cup
      {o \in Outcomes : health = "down" /\ now - start[p] > maxQueryTime}

\* a diverted Query counted as one more failure
QueryDivertCounted(p) ==
    /\ pc[p] = "divert"
    /\ \E o \in SecondaryOutcomes :
         res' = [res EXCEPT ![p] = Result("Secondary", QueryOf(p), o)]
    /\ sent' = [sent EXCEPT ![p] = Append(sent[p], "Secondary")]
    /\ retryCount' = retryCount + 1
    /\ Return(p)
    /\ UNCHANGED <<Secondary, retryUntil, maxQueryTime, retryStrategy, mutex,
                   now, env, wrapped, budget, op, uerr, nfail>>

\* Query, line 230: return db.Secondary.Query(query, args...)
QueryDivert(p) ==
    /\ pc[p] = "divert"
    /\ \E o \in SecondaryOutcomes :
         res' = [res EXCEPT ![p] = Result("Secondary", QueryOf(p), o)]
    /\ sent' = [sent EXCEPT ![p] = Append(sent[p], "Secondary")]
    /\ Return(p)
    /\ UNCHANGED <<shared, mutex, now, env, wrapped, budget, op, uerr, nfail>>

\* Query, lines 234-242: rows, err := db.Primary.Query(query, args...); a
\* fatal answer goes to updateRetry(err), any other has its duration taken
QueryPrimary(p) ==
    /\ pc[p] = "primary"
    /\ \E o \in PrimaryAnswers(p) :
         /\ res' = [res EXCEPT ![p] = Result("Primary", QueryOf(p), o)]
         /\ IF getFatalError(o.err, o.rows) # "nil"
            THEN /\ uerr' = [uerr EXCEPT ![p] = getFatalError(o.err, o.rows)]
                 /\ dur' = dur
                 /\ pc' = [pc EXCEPT ![p] = "lock"]
            ELSE /\ uerr' = uerr
                 /\ dur' = [dur EXCEPT ![p] = now - start[p]]
                 /\ pc' = [pc EXCEPT ![p] = "dur_rlock"]
    /\ sent' = [sent EXCEPT ![p] = Append(sent[p], "Primary")]
    /\ UNCHANGED <<shared, mutex, now, env, wrapped, budget, op, start, nfail>>

\* Query, line 243: db.RLock()
QueryDurRLock(p) ==
    /\ pc[p] = "dur_rlock"
    /\ CanRLock
    /\ readers' = readers \cup {p}
    /\ pc' = [pc EXCEPT ![p] = "dur_check"]
    /\ UNCHANGED <<shared, writer, now, env, wrapped, budget, op, start, dur, uerr, res, sent,
                   nfail>>

\* Query, lines 244-249: tooLong := queryDuration > db.maxQueryTime;
\* db.RUnlock(); a slow query goes to updateRetry(errors.New(...))
QueryDurCheck(p) ==
    /\ pc[p] = "dur_check"
    /\ readers' = readers \ {p}
    /\ IF dur[p] > maxQueryTime
       THEN /\ uerr' = [uerr EXCEPT ![p] = "query took too long"]
            /\ pc' = [pc EXCEPT ![p] = "lock"]
       ELSE /\ uerr' = uerr
            /\ pc' = [pc EXCEPT ![p] = "load"]
    /\ UNCHANGED <<shared, writer, now, env, wrapped, budget, op, start, dur, res, sent, nfail>>

\* Query without lines 250-252: a success is never recorded
QueryLoadRetryCountNoRecovery(p) ==
    /\ pc[p] = "load"
    /\ Return(p)
    /\ UNCHANGED <<shared, mutex, now, env, wrapped, budget, op, uerr, res, sent,
                   nfail>>

\* Query, lines 250-254: atomic.LoadInt32(&db.retryCount) > 0 goes to
\* updateRetry(nil); otherwise the Primary's answer is returned
QueryLoadRetryCount(p) ==
    /\ pc[p] = "load"
    /\ IF retryCount > 0
       THEN /\ pc' = [pc EXCEPT ![p] = "lock"]
            /\ UNCHANGED <<start, dur>>
       ELSE Return(p)
    /\ UNCHANGED <<shared, mutex, now, env, wrapped, budget, op, uerr, res, sent,
                   nfail>>

\* updateRetry going on without waiting for the lock
updateRetryLockNoWait(p) ==
    /\ pc[p] = "lock"
    /\ writer' = {p}
    /\ pc' = [pc EXCEPT ![p] = "update"]
    /\ UNCHANGED <<shared, readers, now, env, wrapped, budget, op, start, dur,
                   uerr, res, sent, nfail>>

\* updateRetry, line 258: db.Lock()
updateRetryLock(p) ==
    /\ pc[p] = "lock"
    /\ CanLock
    /\ writer' = {p}
    /\ pc' = [pc EXCEPT ![p] = "update"]
    /\ UNCHANGED <<shared, readers, now, env, wrapped, budget, op, start, dur, uerr, res, sent,
                   nfail>>

\* updateRetry that counts no failure
updateRetryCountNoIncrement(err, count) ==
    IF err = "nil" THEN 0 ELSE count

\* updateRetry keeping the count on success
updateRetryCountKept(err, count) ==
    IF err = "nil" THEN count ELSE count + 1

\* updateRetry, lines 259-260 and 263: the new retryCount
updateRetryCount(err, count) ==
    IF err = "nil" THEN 0 ELSE count + 1

\* updateRetry with the strategy applied to the count before the increment
updateRetryUntilOld(err, count, strategy, t) ==
    IF err = "nil" THEN t ELSE t + RetryStrategy(strategy, count)

\* updateRetry, lines 261 and 263-264: the new retryUntil; the strategy is
\* applied to the count after the increment
updateRetryUntil(err, count, strategy, t) ==
    IF err = "nil" THEN t ELSE t + RetryStrategy(strategy, count + 1)

\* the rest of updateRetry and of Query once the fields are written:
\* db.Unlock(), then line 239 or line 254
updateRetryLeave(p) ==
    /\ pc[p] = "update"
    /\ writer = {p}
    /\ writer' = {}
    /\ nfail' = [nfail EXCEPT ![p] = IF uerr[p] = "nil" THEN @ ELSE @ + 1]
    /\ IF getFatalError(res[p].err, res[p].rows) # "nil"
       THEN /\ pc' = [pc EXCEPT ![p] = "secondary"]
            /\ UNCHANGED <<start, dur>>
       ELSE Return(p)
    /\ UNCHANGED <<Secondary, maxQueryTime, retryStrategy, readers, now,
                   env, wrapped, budget, op, uerr, res, sent>>

\* updateRetry(nil) doing nothing when retryCount is 0 already
updateRetryNoOpAtZero(p) ==
    /\ updateRetryLeave(p)
    /\ IF uerr[p] = "nil" /\ retryCount = 0
       THEN UNCHANGED <<retryCount, retryUntil>>
       ELSE /\ retryCount' = updateRetryCount(uerr[p], retryCount)
            /\ retryUntil' =
                 updateRetryUntil(uerr[p], retryCount, retryStrategy, now)

\* updateRetry(nil) doing nothing while a cool-down is running
updateRetryKeepsCoolDown(p) ==
    /\ updateRetryLeave(p)
    /\ IF uerr[p] = "nil" /\ Before(now, retryUntil)
       THEN UNCHANGED <<retryCount, retryUntil>>
       ELSE /\ retryCount' = updateRetryCount(uerr[p], retryCount)
            /\ retryUntil' =
                 updateRetryUntil(uerr[p], retryCount, retryStrategy, now)

\* updateRetry, lines 259-266, and where Query goes on its return: after a
\* fatal answer to the Secondary (line 239), otherwise to its own return
\* (line 254)
updateRetry(p) ==
    /\ pc[p] = "update"
    /\ writer = {p}
    /\ retryCount' = updateRetryCount(uerr[p], retryCount)
    /\ retryUntil' = updateRetryUntil(uerr[p], retryCount, retryStrategy, now)
    /\ writer' = {}
    /\ nfail' = [nfail EXCEPT ![p] = IF uerr[p] = "nil" THEN @ ELSE @ + 1]
    /\ IF getFatalError(res[p].err, res[p].rows) # "nil"
       THEN /\ pc' = [pc EXCEPT ![p] = "secondary"]
            /\ UNCHANGED <<start, dur>>
       ELSE Return(p)
    /\ UNCHANGED <<Secondary, maxQueryTime, retryStrategy, readers, now,
                   env, wrapped, budget, op, uerr, res, sent>>

\* Query, lines 239 and 254: rows, err = db.Secondary.Query(query, args...);
\* return rows, err
QueryRetrySecondary(p) ==
    /\ pc[p] = "secondary"
    /\ \E o \in SecondaryOutcomes :
         res' = [res EXCEPT ![p] = Result("Secondary", QueryOf(p), o)]
    /\ sent' = [sent EXCEPT ![p] = Append(sent[p], "Secondary")]
    /\ Return(p)
    /\ UNCHANGED <<shared, mutex, now, env, wrapped, budget, op, uerr, nfail>>

\* func (db *RetryDB) Query(query string, args ...interface{})
Query(p) ==
    \/ QueryCall(p)
    \/ QueryRLock(p)
    \/ QueryTripCheck(p)
    \/ QueryDivert(p)
    \/ QueryPrimary(p)
    \/ QueryDurRLock(p)
    \/ QueryDurCheck(p)
    \/ QueryLoadRetryCount(p)
    \/ updateRetryLock(p)
    \/ updateRetry(p)
    \/ QueryRetrySecondary(p)

Next ==
    \/ \E p \in Procs : Query(p)
    \/ \E p \in Procs : Exec(p)
    \/ \E p \in Procs : Begin(p)
    \/ SetLock
    \/ \E t \in MaxQueryTimes : SetMaxQueryTime(t)
    \/ \E d \in {SmallTick, BigTick} : Tick(d)

Spec == Init /\ [][Next]_vars

\* ------------------------------------------- the circuit forced tripped
\* Four failures recorded at time 0 under the default strategy: the
\* cool-down of 120s outlasts the run.
InitTripped ==
    /\ Secondary = "db"
    /\ retryCount = 4
    /\ retryUntil = defaultRetryStrategy(4)
    /\ maxQueryTime = DefaultMaxQueryTime
    /\ retryStrategy = "default"
    /\ readers = {}
    /\ writer = {}
    /\ InitCallers
    /\ InitBackends
    /\ horizon = Horizon
    /\ health = "any"
    /\ budget = MaxCalls

\* the steps a Query takes while the circuit is tripped, beside a goroutine
\* that keeps setting the threshold
NextTripped ==
    \/ \E p \in Procs : QueryCall(p)
    \/ \E p \in Procs : QueryRLock(p)
    \/ \E p \in Procs : QueryTripCheck(p)
    \/ \E p \in Procs : QueryDivert(p)
    \/ SetLock
    \/ \E t \in MaxQueryTimes : SetMaxQueryTime(t)
    \/ \E d \in {SmallTick, BigTick} : Tick(d)

\* Every goroutine keeps running; a goroutine waiting in RLock gets the lock
\* once the writers that hold it in turn have let go of it often enough
\* (sync.RWMutex starves nobody).
FairTripped ==
    /\ \A p \in Procs : SF_vars(QueryRLock(p))
    /\ \A p \in Procs : WF_vars(QueryTripCheck(p))
    /\ \A p \in Procs : WF_vars(QueryDivert(p))
    /\ WF_vars(\E t \in MaxQueryTimes : SetMaxQueryTime(t))

SpecTripped == InitTripped /\ [][NextTripped]_vars /\ FairTripped

\* ------------------------------------------------- the Primary staying down
\* A fresh RetryDB whose Primary fails or is slow on every query, over a run
\* long enough for the cool-downs to pass.
InitStreak ==
    /\ Secondary = "db"
    /\ InitFields
    /\ InitCallers
    /\ InitBackends
    /\ horizon = MaxStreakTicks * BigTick
    /\ health = "down"
    /\ budget = MaxStreakCalls

\* Query's steps while no query succeeds in time: line 250 is not reached
NextStreak ==
    \/ \E p \in Procs : QueryCall(p)
    \/ \E p \in Procs : QueryRLock(p)
    \/ \E p \in Procs : QueryTripCheck(p)
    \/ \E p \in Procs : QueryDivert(p)
    \/ \E p \in Procs : QueryPrimary(p)
    \/ \E p \in Procs : QueryDurRLock(p)
    \/ \E p \in Procs : QueryDurCheck(p)
    \/ \E p \in Procs : updateRetryLock(p)
    \/ \E p \in Procs : updateRetry(p)
    \/ \E p \in Procs : QueryRetrySecondary(p)
    \/ Tick(BigTick)

SpecStreak == InitStreak /\ [][NextStreak]_vars

\* ------------------------------------------------ the Primary coming back
\* One or two failures were recorded at time 0, so the circuit is tripped;
\* from now on the Primary answers every query in time and without error,
\* the callers keep calling and the clock keeps running.
InitRecover ==
    /\ Secondary = "db"
    /\ retryCount \in {1, 2}
    /\ retryUntil = defaultRetryStrategy(retryCount)
    /\ maxQueryTime = DefaultMaxQueryTime
    /\ retryStrategy = "default"
    /\ readers = {}
    /\ writer = {}
    /\ InitCallers
    /\ InitBackends
    /\ horizon = Horizon
    /\ health = "up"
    /\ budget = -1

\* Query's steps while the Primary is up: line 239 is not reached
NextRecover ==
    \/ \E p \in Procs : QueryCall(p)
    \/ \E p \in Procs : QueryRLock(p)
    \/ \E p \in Procs : QueryTripCheck(p)
    \/ \E p \in Procs : QueryDivert(p)
    \/ \E p \in Procs : QueryPrimary(p)
    \/ \E p \in Procs : QueryDurRLock(p)
    \/ \E p \in Procs : QueryDurCheck(p)
    \/ \E p \in Procs : QueryLoadRetryCount(p)
    \/ \E p \in Procs : updateRetryLock(p)
    \/ \E p \in Procs : updateRetry(p)
    \/ \E d \in {SmallTick, BigTick} : Tick(d)

\* Time advances, every caller keeps calling and keeps running, and a
\* goroutine waiting for the lock gets it (sync.RWMutex starves nobody).
FairRecover ==
    /\ WF_vars(\E d \in {SmallTick, BigTick} : Tick(d))
    /\ \A p \in Procs : WF_vars(QueryCall(p))
    /\ \A p \in Procs : SF_vars(QueryRLock(p))
    /\ \A p \in Procs : WF_vars(QueryTripCheck(p))
    /\ \A p \in Procs : WF_vars(QueryDivert(p))
    /\ \A p \in Procs : WF_vars(QueryPrimary(p))
    /\ \A p \in Procs : SF_vars(QueryDurRLock(p))
    /\ \A p \in Procs : WF_vars(QueryDurCheck(p))
    /\ \A p \in Procs : WF_vars(QueryLoadRetryCount(p))
    /\ \A p \in Procs : SF_vars(updateRetryLock(p))
    /\ \A p \in Procs : WF_vars(updateRetry(p))

SpecRecover == InitRecover /\ [][NextRecover]_vars /\ FairRecover

\* ------------------------------------------------------ a burst of queries
\* A fresh RetryDB with a Secondary whose Primary fails every query; one
\* call for each caller and one more to follow them, all at the same instant.
InitBurst ==
    /\ Secondary = "db"
    /\ InitFields
    /\ InitCallers
    /\ InitBackends
    /\ horizon = 0
    /\ health = "down"
    /\ budget = NumProcs + 1

\* Query's steps when every answer of the Primary is fatal
NextBurst ==
    \/ \E p \in Procs : QueryCall(p)
    \/ \E p \in Procs : QueryRLock(p)
    \/ \E p \in Procs : QueryTripCheck(p)
    \/ \E p \in Procs : QueryDivert(p)
    \/ \E p \in Procs : QueryPrimary(p)
    \/ \E p \in Procs : updateRetryLock(p)
    \/ \E p \in Procs : updateRetry(p)
    \/ \E p \in Procs : QueryRetrySecondary(p)

\* Every goroutine inside Query keeps running, and one that waits for the
\* lock gets it (sync.RWMutex starves neither readers nor writers).
FairBurst ==
    /\ \A p \in Procs : SF_vars(QueryRLock(p))
    /\ \A p \in Procs : WF_vars(QueryTripCheck(p))
    /\ \A p \in Procs : WF_vars(QueryDivert(p))
    /\ \A p \in Procs : WF_vars(QueryPrimary(p))
    /\ \A p \in Procs : SF_vars(updateRetryLock(p))
    /\ \A p \in Procs : WF_vars(updateRetry(p))
    /\ \A p \in Procs : WF_vars(QueryRetrySecondary(p))

SpecBurst == InitBurst /\ [][NextBurst]_vars /\ FairBurst

\* --------------------------------------------------- a strategy of the user
\* A RetryDB with a Secondary whose strategy is the default one or the
\* user's, and is set again while queries run.
InitPolicy ==
    /\ Secondary = "db"
    /\ retryCount = 0
    /\ retryUntil = 0
    /\ maxQueryTime = DefaultMaxQueryTime
    /\ retryStrategy \in Strategies
    /\ readers = {}
    /\ writer = {}
    /\ InitCallers
    /\ InitBackends
    /\ horizon = Horizon
    /\ health = "any"
    /\ budget = MaxCalls

NextPolicy ==
    \/ \E p \in Procs : Query(p)
    \/ SetLock
    \/ \E s \in Strategies : SetRetryStrategy(s)
    \/ \E d \in {SmallTick, BigTick} : Tick(d)

SpecPolicy == InitPolicy /\ [][NextPolicy]_vars

\* ------------------------------------------------- Ping and the pool limits
Backends == {"Primary", "Secondary"}

\* Retryable.Ping returns an error or nil
PingErrors == {"nil", "ErrBad"}

\* the n of SetMaxOpenConns(n) and SetMaxIdleConns(n)
PoolSizes == 1..MaxPoolSize

\* one backend's answer to Ping
Pinged(b, e) == [to |-> b, err |-> e]

\* Ping returning the Primary's error whenever the Primary fails
PingPrimaryFirst(p) ==
    \E pe, se \in PingErrors :
        /\ Enter(p, "Ping")
        /\ IF pe # "nil" \/ Secondary = "nil"
           THEN /\ ping' = [ping EXCEPT ![p] = <<Pinged("Primary", pe)>>]
                /\ sent' = [sent EXCEPT ![p] = <<"Primary">>]
                /\ res' = [res EXCEPT ![p] =
                     Result("Primary", None, [err |-> pe, rows |-> "nil"])]
           ELSE /\ ping' = [ping EXCEPT ![p] =
                     <<Pinged("Primary", pe), Pinged("Secondary", se)>>]
                /\ sent' = [sent EXCEPT ![p] = <<"Primary", "Secondary">>]
                /\ res' = [res EXCEPT ![p] =
                     Result("Secondary", None, [err |-> se, rows |-> "nil"])]
        /\ Return(p)
        /\ UNCHANGED <<shared, mutex, now, env, isDB, conns, row, cursor, scan>>

\* func (db *RetryDB) Ping() error, lines 189-198
Ping(p) ==
    \E pe, se \in PingErrors :
        /\ Enter(p, "Ping")
        /\ IF pe # "nil" /\ Secondary = "nil"
           THEN /\ ping' = [ping EXCEPT ![p] = <<Pinged("Primary", pe)>>]
                /\ sent' = [sent EXCEPT ![p] = <<"Primary">>]
                /\ res' = [res EXCEPT ![p] =
                     Result("Primary", None, [err |-> pe, rows |-> "nil"])]
           ELSE IF Secondary # "nil"
           THEN /\ ping' = [ping EXCEPT ![p] =
                     <<Pinged("Primary", pe), Pinged("Secondary", se)>>]
                /\ sent' = [sent EXCEPT ![p] = <<"Primary", "Secondary">>]
                /\ res' = [res EXCEPT ![p] =
                     Result("Secondary", None, [err |-> se, rows |-> "nil"])]
           ELSE /\ ping' = [ping EXCEPT ![p] = <<Pinged("Primary", pe)>>]
                /\ sent' = [sent EXCEPT ![p] = <<"Primary">>]
                /\ res' = [res EXCEPT ![p] =
                     Result("Primary", None, [err |-> pe, rows |-> "nil"])]
        /\ Return(p)
        /\ UNCHANGED <<shared, mutex, now, env, isDB, conns, row, cursor, scan>>

\* the backends a setter reaches: the Primary if it is a *sql.DB, and the
\* Secondary if there is one and it is a *sql.DB (lines 155, 158-159)
Reached(b) ==
    /\ isDB[b]
    /\ b = "Secondary" => Secondary # "nil"

\* func (r *RetryDB) SetMaxOpenConns(n int), lines 154-163
SetMaxOpenConns(p, n) ==
    /\ Enter(p, "SetMaxOpenConns")
    /\ conns' = [b \in Backends |->
                   IF Reached(b) THEN [conns[b] EXCEPT !.open = n]
                   ELSE conns[b]]
    /\ sent' = [sent EXCEPT ![p] = <<>>]
    /\ res' = [res EXCEPT ![p] = [NoResult EXCEPT !.q = n]]
    /\ Return(p)
    /\ UNCHANGED <<shared, mutex, now, env, isDB, ping, row, cursor, scan>>

\* func (r *RetryDB) SetMaxIdleConns(n int), lines 166-175: line 168 calls
\* db.SetMaxOpenConns(n) on the Primary, line 172 db.SetMaxIdleConns(n) on
\* the Secondary
SetMaxIdleConns(p, n) ==
    /\ Enter(p, "SetMaxIdleConns")
    /\ conns' = [b \in Backends |->
                   IF ~Reached(b) THEN conns[b]
                   ELSE IF b = "Primary" THEN [conns[b] EXCEPT !.open = n]
                   ELSE [conns[b] EXCEPT !.idle = n]]
    /\ sent' = [sent EXCEPT ![p] = <<>>]
    /\ res' = [res EXCEPT ![p] = [NoResult EXCEPT !.q = n]]
    /\ Return(p)
    /\ UNCHANGED <<shared, mutex, now, env, isDB, ping, row, cursor, scan>>

\* A RetryDB with or without a Secondary, over backends that are a *sql.DB
\* or some other Retryable
InitPool ==
    /\ Secondary \in {"db", "nil"}
    /\ InitFields
    /\ InitCallers
    /\ isDB \in [Backends -> BOOLEAN]
    /\ conns = [b \in Backends |-> NoLimits]
    /\ horizon = 0
    /\ health = "any"
    /\ budget = MaxPoolCalls

NextPool ==
    \/ \E p \in Procs : Ping(p)
    \/ \E p \in Procs, n \in PoolSizes : SetMaxOpenConns(p, n)
    \/ \E p \in Procs, n \in PoolSizes : SetMaxIdleConns(p, n)

SpecPool == InitPool /\ [][NextPool]_vars

\* ------------------------------------------------------ QueryRow and Row
\* QueryRow, lines 272-273: rows, err := db.Query(query, args...), as far
\* as Query's lines 218-220; the Row of the caller's last QueryRow is gone
QueryRowCall(p) ==
    /\ Enter(p, "QueryRow")
    /\ ~(pc[p] = "done" /\ op[p] = "QueryRow")
    /\ row' = [row EXCEPT ![p] = NilRow]
    /\ cursor' = [cursor EXCEPT ![p] = NewCursor]
    /\ scan' = [scan EXCEPT ![p] = NoScan]
    /\ IF Secondary = "nil"
       THEN \E o \in PrimaryOutcomes(health) :
              /\ sent' = [sent EXCEPT ![p] = <<"Primary">>]
              /\ res' = [res EXCEPT ![p] = Result("Primary", QueryOf(p), o)]
              /\ Return(p)
       ELSE /\ sent' = [sent EXCEPT ![p] = <<>>]
            /\ res' = [res EXCEPT ![p] = NoResult]
            /\ pc' = [pc EXCEPT ![p] = "rlock"]
            /\ UNCHANGED <<start, dur>>
    /\ UNCHANGED <<shared, mutex, now, env, isDB, conns, ping>>

\* QueryRow, line 274: &Row{rows: rows, err: err}
NewRow(rows, err) == [rows |-> rows, err |-> err]

\* QueryRow, line 274: return &Row{rows: rows, err: err}
QueryRowReturn(p) ==
    /\ pc[p] = "done"
    /\ op[p] = "QueryRow"
    /\ row' = [row EXCEPT ![p] = NewRow(res[p].rows, res[p].err)]
    /\ pc' = [pc EXCEPT ![p] = "row"]
    /\ UNCHANGED <<shared, mutex, now, env, isDB, conns, ping, cursor, scan,
                   budget, op, start, dur, uerr, res, sent, nfail>>

\* what Scan is given as dest
Dests == {<<"string">>, <<"string", "RawBytes">>}

\* what the cursor of a Row does when Scan uses it: whether Next finds a
\* row, what Err() is after a Next that found none, what Scan and Close
\* return.  A cursor that already had an Err() when Query looked at it is
\* closed and has that Err().
CursorAnswers(rows) ==
    { a \in [avail : 0..MaxRows, err : {"nil", "ErrNoRows", "ErrBad"},
             decode : {"nil", "ErrDecode"}, close : {"nil", "ErrClose"}] :
        /\ rows = "ok" => a.err \in {"nil", "ErrBad"}
        /\ rows # "ok" => (a.avail = 0 /\ a.err = rows) }

\* r.rows.Close(): one more call to Close
Closed(c, e) ==
    [c EXCEPT !.closes = @ + 1, !.closed = TRUE,
              !.close = IF @ = None THEN e ELSE @]

\* Scan without line 318
NotDeferred(c, e) == c

\* Scan, line 318: defer r.rows.Close()
Deferred(c, e) == Closed(c, e)

\* Scan returning the cursor's Err(), nil or not, when there is no row
ScanNoRowErrOnly(e) == e

\* Scan, lines 326-329: no row
ScanNoRow(e) == IF e # "nil" THEN e ELSE "ErrNoRows"

\* Scan that goes to the cursor whatever r.err is
ScanRunNoErrCheck(r, c, dest, a) ==
    [ret |-> r.err, cursor |-> Deferred(c, a.close)]

\* func (r *Row) Scan(dest ...interface{}) error, lines 300-341: what it
\* returns and what it has done to the cursor by then
ScanRun(r, c, dest, a) ==
    IF r.err # "nil"
    THEN [ret |-> r.err, cursor |-> c]
    ELSE IF \E i \in 1..Len(dest) : dest[i] = "RawBytes"
    THEN [ret |-> "ErrRawBytes", cursor |-> Deferred(c, a.close)]
    ELSE IF a.avail = 0
    THEN [ret |-> ScanNoRow(a.err),
          cursor |-> Deferred([c EXCEPT !.nexts = @ + 1, !.found = "no row",
                                        !.err = a.err], a.close)]
    ELSE LET n == [c EXCEPT !.nexts = @ + 1, !.found = "row",
                            !.scans = @ + 1, !.decode = a.decode]
         IN  IF a.decode # "nil"
             THEN [ret |-> a.decode, cursor |-> Deferred(n, a.close)]
             ELSE [ret |-> a.close,
                   cursor |-> Deferred(Closed(n, a.close), a.close)]

\* the caller calls Scan on the Row it got
RowScan(p) ==
    /\ pc[p] = "row"
    /\ \E dest \in Dests, a \in CursorAnswers(row[p].rows) :
         LET run == ScanRun(row[p], cursor[p], dest, a)
         IN  /\ scan' = [scan EXCEPT ![p] = [dest |-> dest, ret |-> run.ret]]
             /\ cursor' = [cursor EXCEPT ![p] = run.cursor]
    /\ op' = [op EXCEPT ![p] = "Scan"]
    /\ pc' = [pc EXCEPT ![p] = "done"]
    /\ UNCHANGED <<shared, mutex, now, env, isDB, conns, ping, row,
                   budget, start, dur, uerr, res, sent, nfail>>

InitRow ==
    /\ Secondary \in {"db", "nil"}
    /\ InitFields
    /\ InitCallers
    /\ InitBackends
    /\ horizon = 0
    /\ health = "any"
    /\ budget = MaxRowCalls

\* QueryRow with all of Query's steps, and Scan
NextRow ==
    \/ \E p \in Procs : QueryRowCall(p)
    \/ \E p \in Procs : QueryRLock(p)
    \/ \E p \in Procs : QueryTripCheck(p)
    \/ \E p \in Procs : QueryDivert(p)
    \/ \E p \in Procs : QueryPrimary(p)
    \/ \E p \in Procs : QueryDurRLock(p)
    \/ \E p \in Procs : QueryDurCheck(p)
    \/ \E p \in Procs : QueryLoadRetryCount(p)
    \/ \E p \in Procs : updateRetryLock(p)
    \/ \E p \in Procs : updateRetry(p)
    \/ \E p \in Procs : QueryRetrySecondary(p)
    \/ \E p \in Procs : QueryRowReturn(p)
    \/ \E p \in Procs : RowScan(p)

SpecRow == InitRow /\ [][NextRow]_vars

\* ================================================================ claims
\* the callers inside, or back from, a Query on a RetryDB with a Secondary
Querying == {p \in Procs : op[p] = "Query" /\ Secondary = "db"}

\* rows, err hold the Primary's answer
FromPrimary(p) == res[p].src = "Primary"

\* the answer is the no-rows condition and nothing worse
NoRowsOnly(o) ==
    /\ ~Failed(o)
    /\ o.err = "ErrNoRows" \/ o.rows = "ErrNoRows"

\* the caller's step just taken left pc[p] = at for pc'[p] # at
Leaves(p, at) == pc[p] = at /\ pc'[p] # at

\* C1: with a Secondary and the circuit not tripped, a fatal answer of the
\* Primary (an error other than no-rows, from Query or from the cursor) is
\* recorded as exactly one failure, the same query is then put to the
\* Secondary, and what is returned is the Secondary's answer, never the
\* Primary's.
C1_FatalGoesToSecondary ==
    \A p \in Querying :
        /\ (FromPrimary(p) /\ Failed(res[p])) =>
              /\ pc[p] \in {"lock", "update", "secondary"}
              /\ uerr[p] \notin {"nil", "query took too long"}
              /\ sent[p] = <<"Primary">>
              /\ nfail[p] = (IF pc[p] = "secondary" THEN 1 ELSE 0)
        /\ pc[p] = "secondary" => (FromPrimary(p) /\ Failed(res[p]))
        /\ (pc[p] = "done" /\ sent[p] = <<"Primary", "Secondary">>) =>
              /\ nfail[p] = 1
              /\ uerr[p] \notin {"nil", "query took too long"}
              /\ res[p].src = "Secondary"
              /\ res[p].q = QueryOf(p)
        /\ (pc[p] = "done" /\ Len(sent[p]) = 2) =>
              sent[p] = <<"Primary", "Secondary">>

C1_Witness ==
    \E p \in Querying :
        /\ pc[p] = "done"
        /\ sent[p] = <<"Primary", "Secondary">>
        /\ nfail[p] = 1
        /\ res[p].src = "Secondary"
        /\ res[p].err = "ErrBad"

\* C2: a Query whose trip check finds start before retryUntil goes to the
\* Secondary only, returns the Secondary's answer as it is, error or not, and
\* none of its steps changes retryCount or retryUntil; a Query whose check
\* finds the circuit not tripped is not diverted.
C2_TrippedDiverts ==
    [][\A p \in Querying :
         /\ Leaves(p, "check") =>
              ((pc'[p] = "divert") <=> (start[p] < retryUntil))
         /\ Leaves(p, "check") => pc'[p] \in {"divert", "primary"}
         /\ Leaves(p, "divert") =>
              /\ pc'[p] = "done"
              /\ sent'[p] = <<"Secondary">>
              /\ res'[p].src = "Secondary"
              /\ res'[p].q = QueryOf(p)
              /\ \E o \in SecondaryOutcomes :
                   res'[p] = Result("Secondary", QueryOf(p), o)
              /\ nfail'[p] = 0
         /\ (Leaves(p, "rlock") \/ Leaves(p, "check") \/ Leaves(p, "divert")) =>
              UNCHANGED <<retryCount, retryUntil>>]_vars

C2_Witness ==
    \E p \in Querying :
        /\ pc[p] = "done"
        /\ sent[p] = <<"Secondary">>
        /\ res[p].err = "ErrBad"
        /\ retryCount = 1
        /\ now < retryUntil

\* C3 as claimed: a Query whose Primary answer is only the no-rows condition
\* records no failure and does not query the Secondary.
C3_NoRowsNeverRecorded ==
    \A p \in Querying :
        (FromPrimary(p) /\ NoRowsOnly(res[p])) =>
            /\ pc[p] \notin {"lock", "update", "secondary"} \/ uerr[p] = "nil"
            /\ nfail[p] = 0
            /\ sent[p] = <<"Primary">>

\* C3: a Primary answer that is only the no-rows condition is never taken
\* for fatal and the Secondary is not queried for that call; a failure is
\* recorded for the call only when it took longer than the threshold, and
\* then exactly one.
C3_NoRowsNotFatal ==
    \A p \in Querying :
        (FromPrimary(p) /\ NoRowsOnly(res[p])) =>
            /\ pc[p] # "secondary"
            /\ sent[p] = <<"Primary">>
            /\ uerr[p] \in {"nil", "query took too long"}
            /\ nfail[p] = (IF pc[p] = "done" /\ uerr[p] # "nil" THEN 1 ELSE 0)
            /\ (uerr[p] # "nil" /\ pc[p] # "done") => dur[p] > 0

C3_Witness ==
    \E p, r \in Querying :
        /\ pc[p] = "done" /\ pc[r] = "done"
        /\ FromPrimary(p) /\ res[p].err = "ErrNoRows" /\ nfail[p] = 0
        /\ FromPrimary(r) /\ res[r].rows = "ErrNoRows" /\ nfail[r] = 1

\* C4: with the threshold at 30ms and the circuit not tripped, a Primary
\* query that succeeds after 50ms is recorded as one failure, which opens a
\* cool-down, and the Primary's answer is what the call returns; a Query
\* whose trip check falls inside a cool-down goes to the Secondary and not
\* to the Primary.
C4_SlowQueryTrips ==
    [][\A p \in Querying :
         /\ (Leaves(p, "dur_check") /\ maxQueryTime = 3 /\ dur[p] = SmallTick) =>
              /\ pc'[p] = "lock"
              /\ uerr'[p] = "query took too long"
         /\ (Leaves(p, "update") /\ uerr[p] = "query took too long") =>
              /\ retryCount' = retryCount + 1
              /\ retryUntil' > now
              /\ retryUntil' >= now + 30 * Second
              /\ pc'[p] = "done"
              /\ res'[p] = res[p]
              /\ FromPrimary(p) /\ ~Failed(res[p])
              /\ sent'[p] = <<"Primary">>
              /\ nfail'[p] = 1
         /\ (Leaves(p, "check") /\ start[p] < retryUntil) => pc'[p] = "divert"
         /\ Leaves(p, "divert") =>
              (sent'[p] = <<"Secondary">> /\ res'[p].src = "Secondary")]_vars

C4_Witness ==
    \E p, r \in Querying :
        /\ maxQueryTime = 3
        /\ now = SmallTick
        /\ retryCount = 1
        /\ retryUntil = SmallTick + 30 * Second
        /\ pc[p] = "done" /\ uerr[p] = "query took too long"
        /\ FromPrimary(p) /\ res[p].rows = "ok" /\ nfail[p] = 1
        /\ pc[r] = "done" /\ sent[r] = <<"Secondary">>

\* C5: without a Secondary every Query is put to the Primary and returns the
\* Primary's answer, whatever it is, and retryCount and retryUntil stay as
\* they were at construction.
C5_NoSecondaryNoTracking ==
    Secondary = "nil" =>
        /\ retryCount = 0
        /\ retryUntil = 0
        /\ \A p \in Procs :
             /\ pc[p] \in {"idle", "done"}
             /\ nfail[p] = 0
             /\ (op[p] = "Query") =>
                  /\ sent[p] = <<"Primary">>
                  /\ res[p].src = "Primary"
                  /\ res[p].q = QueryOf(p)

C5_Witness ==
    /\ Secondary = "nil"
    /\ now > 0
    /\ \E p, r \in Procs :
         /\ op[p] = "Query" /\ pc[p] = "done" /\ Failed(res[p])
         /\ op[r] = "Query" /\ pc[r] = "done" /\ NoRowsOnly(res[r])

\* C8: with a Secondary and the circuit not tripped, a Primary query that is
\* neither fatal nor slow and finds retryCount > 0 records a success: right
\* after the recording retryCount = 0 and retryUntil = the time of the
\* recording, so the circuit is not tripped, and the call returns the
\* Primary's answer.
C8_FastSuccessRecovers ==
    [][\A p \in Querying :
         /\ (Leaves(p, "dur_check") /\ dur[p] <= maxQueryTime) =>
              (pc'[p] = "load" /\ uerr'[p] = "nil")
         /\ (Leaves(p, "load") /\ retryCount > 0) =>
              (pc'[p] = "lock" /\ uerr'[p] = "nil")
         /\ (Leaves(p, "lock") /\ uerr[p] = "nil") =>
              (pc'[p] = "update" /\ uerr'[p] = "nil")
         /\ (Leaves(p, "update") /\ uerr[p] = "nil") =>
              /\ retryCount' = 0
              /\ retryUntil' = now
              /\ ~(now' < retryUntil')
              /\ pc'[p] = "done"
              /\ res'[p] = res[p]
              /\ FromPrimary(p) /\ ~Failed(res[p])
              /\ sent'[p] = <<"Primary">>
              /\ nfail'[p] = 0]_vars

C8_Witness ==
    \E p \in Querying :
        /\ pc[p] = "done"
        /\ FromPrimary(p) /\ res[p].rows = "ok"
        /\ nfail[p] = 0
        /\ retryCount = 0
        /\ retryUntil = now
        /\ now = 2 * BigTick

\* C10: Exec and Begin are put to the Primary and never to the Secondary,
\* whatever retryCount and retryUntil are, and leave both as they were,
\* whether they succeed or fail.
C10_WritesToPrimaryOnly ==
    [][\A p \in Procs :
         (budget' # budget /\ op'[p] \in {"Exec", "Begin"}) =>
             /\ pc'[p] = "done"
             /\ sent'[p] = <<"Primary">>
             /\ res'[p].src = "Primary"
             /\ res'[p].err \in WriteErrors
             /\ nfail'[p] = 0
             /\ UNCHANGED <<retryCount, retryUntil>>]_vars

C10_Witness ==
    \E p, r \in Procs :
        /\ Secondary = "db"
        /\ now < retryUntil
        /\ retryCount = 1
        /\ pc[p] = "done" /\ op[p] = "Exec" /\ res[p].err = "ErrBad"
        /\ pc[r] = "done" /\ op[r] = "Begin" /\ res[r].err = "nil"

\* C6: with the circuit tripped for the whole run, however many callers
\* run Query and however they interleave, no call queries the Primary, every
\* call that asks for the read lock gets it, and every call returns the
\* Secondary's answer.
C6_TrippedConcurrent ==
    /\ [](now < retryUntil)
    /\ [](\A p \in Procs :
            /\ pc[p] \in {"idle", "rlock", "check", "divert", "done"}
            /\ sent[p] \in {<<>>, <<"Secondary">>})
    /\ \A p \in Procs : (pc[p] = "rlock") ~> (pc[p] = "check")
    /\ \A p \in Procs :
         (pc[p] = "rlock") ~>
            (pc[p] = "done" /\ sent[p] = <<"Secondary">>
               /\ res[p].src = "Secondary")

C6_Witness ==
    /\ now < retryUntil
    /\ now > 0
    /\ maxQueryTime # DefaultMaxQueryTime
    /\ \A p \in Procs :
         pc[p] = "done" /\ sent[p] = <<"Secondary">> /\ res[p].src = "Secondary"

\* the cool-downs the claim lists, by the number of the failure
ClaimedCoolDown(n) ==
    IF n = 1 THEN 0
    ELSE IF n = 2 THEN 30 * Second
    ELSE IF n = 3 THEN 60 * Second
    ELSE IF n = 4 THEN 90 * Second
    ELSE 120 * Second

\* the cool-downs applied, by the number of the failure
AppliedCoolDown(n) ==
    IF n = 1 THEN 30 * Second
    ELSE IF n = 2 THEN 60 * Second
    ELSE IF n = 3 THEN 90 * Second
    ELSE 120 * Second

\* C7 as claimed: a failure recording sets retryUntil to now plus the
\* strategy of the count before the increment, so that the default strategy
\* gives 0s, 30s, 60s, 90s and then 120s, and the first failure leaves the
\* circuit untripped.
C7_CoolDownOfOldCount ==
    [][\A p \in Querying :
         (Leaves(p, "update") /\ uerr[p] # "nil") =>
             /\ retryCount' = retryCount + 1
             /\ retryUntil' = now + RetryStrategy(retryStrategy, retryCount)
             /\ retryUntil' = now + ClaimedCoolDown(retryCount + 1)]_vars

\* C7: a failure recording increments retryCount and then sets retryUntil to
\* now plus the strategy of the incremented count; with the default strategy
\* consecutive failures from a fresh RetryDB apply 30s, 60s, 90s and then
\* 120s for every later one, so the first failure already trips the circuit.
C7_CoolDownOfNewCount ==
    [][\A p \in Querying :
         (Leaves(p, "update") /\ uerr[p] # "nil") =>
             /\ retryCount' = retryCount + 1
             /\ retryUntil' = now + RetryStrategy(retryStrategy, retryCount')
             /\ retryUntil' = now + AppliedCoolDown(retryCount + 1)
             /\ now' < retryUntil']_vars

C7_Witness ==
    /\ retryCount = 5
    /\ retryUntil = now + 120 * Second
    /\ \E p \in Querying : pc[p] = "secondary" /\ nfail[p] = 1

\* C9: once the clock has reached retryUntil the next trip check sends the
\* Query to the Primary; and if the Primary answers every query in time and
\* without error while time and the callers go on, then from some point on
\* retryCount is 0, the circuit is not tripped and every Query goes to the
\* Primary.
C9_Recovers ==
    /\ [][\A p \in Procs :
            (Leaves(p, "check") /\ retryUntil <= start[p]) =>
                pc'[p] = "primary"]_vars
    /\ <>[](/\ retryCount = 0
            /\ ~(now < retryUntil)
            /\ \A p \in Procs :
                 /\ pc[p] # "divert"
                 /\ sent[p] \in {<<>>, <<"Primary">>})

C9_Witness ==
    /\ retryCount = 0
    /\ retryUntil = 2 * BigTick
    /\ \A p \in Procs :
         pc[p] = "done" /\ sent[p] = <<"Primary">> /\ FromPrimary(p)

\* the callers back from Ping
Pinging == {p \in Procs : op[p] = "Ping" /\ pc[p] = "done"}

\* C11: with a Secondary, Ping returns what the Secondary's Ping returned,
\* whatever the Primary's Ping returned; without one, what the Primary's
\* returned; and when both backends fail their pings Ping returns an error.
C11_PingReflectsSecondary ==
    \A p \in Pinging :
        /\ Secondary = "db" =>
             /\ Len(ping[p]) = 2
             /\ ping[p][1].to = "Primary" /\ ping[p][2].to = "Secondary"
             /\ res[p].err = ping[p][2].err
        /\ Secondary = "nil" =>
             /\ Len(ping[p]) = 1
             /\ ping[p][1].to = "Primary"
             /\ res[p].err = ping[p][1].err
        /\ (\A i \in 1..Len(ping[p]) : ping[p][i].err # "nil") =>
             res[p].err # "nil"

C11_Witness ==
    \E p, r \in Pinging :
        /\ Secondary = "db"
        /\ ping[p][1].err = "ErrBad" /\ ping[p][2].err = "nil"
        /\ res[p].err = "nil"
        /\ ping[r][1].err = "ErrBad" /\ ping[r][2].err = "ErrBad"
        /\ res[r].err = "ErrBad"

\* C14 as claimed: SetMaxIdleConns(n) sets MaxIdleConns to n on the Primary
\* and on the Secondary, where the backend is a *sql.DB, leaves every
\* MaxOpenConns as it was and leaves any other backend alone.
C14_IdleLimitOnBoth ==
    [][\A p \in Procs, n \in PoolSizes :
         SetMaxIdleConns(p, n) =>
             \A b \in Backends :
                 /\ conns'[b].open = conns[b].open
                 /\ conns'[b].idle = (IF Reached(b) THEN n ELSE conns[b].idle)]_vars

\* the callers back from Scan, and those of them whose Row holds a cursor
Scanned == {p \in Procs : op[p] = "Scan" /\ pc[p] = "done"}
ScannedCursor == {p \in Scanned : row[p].err = "nil"}

\* a destination of the Scan is a *sql.RawBytes
RawDest(p) == \E i \in 1..Len(scan[p].dest) : scan[p].dest[i] = "RawBytes"

\* C12: QueryRow returns a Row, never nil, that holds the rows and err of
\* its Query; Scan on a Row whose err is not nil returns that err and has
\* called neither Next nor Scan nor Close on any cursor.
C12_FailedQueryScan ==
    \A p \in Procs :
        /\ (pc[p] = "row" \/ p \in Scanned) =>
             /\ row[p] # NilRow
             /\ row[p] = [rows |-> res[p].rows, err |-> res[p].err]
        /\ (p \in Scanned /\ res[p].err # "nil") =>
             /\ scan[p].ret = res[p].err
             /\ cursor[p] = NewCursor

C12_Witness ==
    \E p, r \in Scanned :
        /\ Secondary = "db"
        /\ sent[p] = <<"Primary", "Secondary">>
        /\ res[p].err = "ErrBad" /\ scan[p].ret = "ErrBad"
        /\ sent[r] = <<"Primary">>
        /\ res[r].err = "ErrNoRows" /\ scan[r].ret = "ErrNoRows"

\* what C13 says of a Scan apart from the number of calls to Next
NoRowOrDecoded(p) ==
    /\ cursor[p].found = "no row" =>
         scan[p].ret = (IF cursor[p].err # "nil" THEN cursor[p].err
                        ELSE "ErrNoRows")
    /\ scan[p].ret = "nil" =>
         (cursor[p].scans = 1 /\ cursor[p].decode = "nil")

\* C13 as claimed: Scan on a Row whose query succeeded calls Next exactly
\* once; when Next finds no row it returns the cursor's Err() if there is
\* one and sql.ErrNoRows otherwise; it returns nil only after decoding.
C13_NextExactlyOnce ==
    \A p \in ScannedCursor :
        /\ cursor[p].nexts = 1
        /\ NoRowOrDecoded(p)

\* C13: Scan on a Row whose query succeeded calls Next exactly once unless a
\* destination is a RawBytes, and then it returns the usage error without
\* calling Next; when Next finds no row it returns the cursor's Err() if
\* there is one and sql.ErrNoRows otherwise; it returns nil only after
\* decoding.
C13_NextOnceUnlessRawBytes ==
    \A p \in ScannedCursor :
        /\ cursor[p].nexts = (IF RawDest(p) THEN 0 ELSE 1)
        /\ RawDest(p) => scan[p].ret = "ErrRawBytes"
        /\ NoRowOrDecoded(p)

C13_Witness ==
    \E p, r \in ScannedCursor :
        /\ cursor[p].nexts = 1 /\ cursor[p].found = "no row"
        /\ cursor[p].err = "nil" /\ scan[p].ret = "ErrNoRows"
        /\ cursor[r].nexts = 1 /\ cursor[r].found = "no row"
        /\ cursor[r].err = "ErrBad" /\ scan[r].ret = "ErrBad"

\* C19: a Scan that gets past the check of r.err has closed the cursor when
\* it returns, whether it rejected a RawBytes, found no row, failed to
\* decode, failed to close or succeeded; it returns the error of the decoding
\* or of the closing as it got it, and it calls Next and the cursor's Scan at
\* most once.
C19_CursorClosed ==
    \A p \in ScannedCursor :
        /\ cursor[p].closed
        /\ cursor[p].closes >= 1
        /\ cursor[p].nexts <= 1
        /\ cursor[p].scans <= cursor[p].nexts
        /\ cursor[p].decode \notin {None, "nil"} =>
             scan[p].ret = cursor[p].decode
        /\ cursor[p].decode = "nil" => scan[p].ret = cursor[p].close

C19_Witness ==
    \E p, r \in ScannedCursor :
        /\ RawDest(p) /\ scan[p].ret = "ErrRawBytes" /\ cursor[p].closed
        /\ ~RawDest(r) /\ cursor[r].closed
        /\ \/ scan[r].ret = "ErrDecode"
           \/ scan[r].ret = "ErrClose"

\* C15: whatever the strategy, as long as it gives a positive cool-down for
\* every count from 1 on, and however Query calls, failure recordings and
\* success recordings interleave, the circuit is not tripped while
\* retryCount is 0.
C15_NotTrippedAtZero ==
    /\ \A s \in Strategies, c \in 1..(NumProcs * MaxCalls) :
         RetryStrategy(s, c) > 0
    /\ retryCount = 0 => ~(now < retryUntil)

C15_Witness ==
    /\ retryStrategy = "flat"
    /\ retryCount = 0
    /\ now > 0
    /\ retryUntil = now
    /\ \E p, r \in Querying :
         /\ nfail[p] = 1 /\ pc[p] = "done"
         /\ nfail[r] = 0 /\ pc[r] = "done" /\ FromPrimary(r)

\* C16 as claimed: the RetryDB keeps a count of the queries diverted to the
\* Secondary, so every diverted Query changes a field of the RetryDB.
C16_DivertCounted ==
    [][\A p \in Querying : Leaves(p, "divert") => shared' # shared]_vars

\* C16: the RetryDB keeps no count of the diverted queries: a diverted Query
\* leaves every field of the RetryDB as it was, and a success recording
\* resets retryCount and retryUntil and nothing else.
C16_NoDivertCount ==
    [][\A p \in Querying :
         /\ Leaves(p, "divert") => UNCHANGED shared
         /\ (Leaves(p, "update") /\ uerr[p] = "nil") =>
              /\ retryCount' = 0
              /\ retryUntil' = now
              /\ UNCHANGED <<Secondary, maxQueryTime, retryStrategy>>]_vars

C16_Witness ==
    \E p, r \in Querying :
        /\ now = 0 /\ retryCount = 0 /\ retryUntil = 0
        /\ pc[p] = "done" /\ sent[p] = <<"Secondary">>
        /\ pc[r] = "done" /\ FromPrimary(r) /\ ~Failed(res[r])

\* C17 as claimed: updateRetry(nil) with retryCount at 0 changes neither
\* retryCount nor retryUntil.
C17_SuccessAtZeroNoOp ==
    [][\A p \in Querying :
         (Leaves(p, "update") /\ uerr[p] = "nil" /\ retryCount = 0) =>
             UNCHANGED <<retryCount, retryUntil>>]_vars

\* C17: updateRetry(nil) with retryCount at 0, as the second of two callers
\* that both loaded a retryCount above 0 finds it, leaves retryCount at 0 and
\* sets retryUntil to now; the circuit was not tripped and is not after.
C17_SuccessAtZeroSetsNow ==
    [][\A p \in Querying :
         (Leaves(p, "update") /\ uerr[p] = "nil" /\ retryCount = 0) =>
             /\ retryCount' = 0
             /\ retryUntil' = now
             /\ ~(now < retryUntil)
             /\ ~(now' < retryUntil')]_vars

C17_Witness ==
    \E p, r \in Querying :
        /\ p # r
        /\ pc[p] = "update" /\ uerr[p] = "nil"
        /\ retryCount = 0 /\ retryUntil < now
        /\ pc[r] = "done" /\ FromPrimary(r) /\ ~Failed(res[r])

\* C18: the trip check and the failure recording are two critical sections:
\* every caller that the check let through to the Primary records its own
\* failure, in one step that holds the lock alone and writes retryCount and
\* retryUntil together, and goes on to the Secondary; when all the callers
\* of a burst went to the Primary, retryCount has risen by their number.
C18_BurstRecordsEach ==
    /\ [](\A p \in Procs :
            pc[p] = "update" =>
              (writer = {p} /\ readers = {}
               /\ \A r \in Procs \ {p} : pc[r] # "update"))
    /\ [][\A p \in Procs :
            Leaves(p, "update") =>
              /\ retryCount' = retryCount + 1
              /\ retryUntil' = now + RetryStrategy(retryStrategy, retryCount')]_vars
    /\ [][(retryCount' # retryCount \/ retryUntil' # retryUntil) =>
            \E p \in Procs : Leaves(p, "update")]_vars
    /\ [](\A p \in Procs :
            (pc[p] = "done" /\ sent[p] # <<>> /\ sent[p][1] = "Primary") =>
              (sent[p] = <<"Primary", "Secondary">> /\ nfail[p] = 1))
    /\ []((\A p \in Procs :
             pc[p] = "done" /\ sent[p] # <<>> /\ sent[p][1] = "Primary") =>
            retryCount = NumProcs)
    /\ \A p \in Procs :
         (pc[p] = "primary") ~> (pc[p] = "done" /\ nfail[p] = 1)

C18_Witness ==
    /\ now = 0
    /\ retryCount = NumProcs
    /\ \A p \in Procs :
         /\ pc[p] = "done"
         /\ sent[p] = <<"Primary", "Secondary">>
         /\ nfail[p] = 1

\* C20: a Query that the trip check let through before another caller
\* recorded a failure, and that then succeeds in time, records its success
\* while the cool-down of that failure is running: retryCount goes to 0 and
\* retryUntil to now, and the circuit is no longer tripped.
C20_StaleSuccessCancels ==
    [][\A p \in Querying :
         (Leaves(p, "update") /\ uerr[p] = "nil" /\ now < retryUntil) =>
             /\ start[p] <= now
             /\ FromPrimary(p) /\ ~Failed(res[p])
             /\ retryCount > 0
             /\ retryCount' = 0
             /\ retryUntil' = now
             /\ ~(now' < retryUntil')]_vars

C20_Witness ==
    \E p, r \in Querying :
        /\ now = 0 /\ retryCount = 0 /\ retryUntil = 0
        /\ pc[r] \in {"secondary", "done"}
        /\ nfail[r] = 1 /\ uerr[r] \notin {"nil", "query took too long"}
        /\ pc[p] = "done" /\ uerr[p] = "nil"
        /\ FromPrimary(p) /\ ~Failed(res[p])

====
